---------------------------- MODULE Spec2Model ----------------------------
(***************************************************************************)
(* Model of package retry (retry.go): DoFuncBackoff, DoFunc and Do.        *)
(*                                                                         *)
(* One variable, call, maps every running call of a public entry point to  *)
(* the record of its local state: the parameters and locals of the Go      *)
(* function, its position, and the history of what it did (invocations of  *)
(* the operation, strategy invocations, pauses).  The package has no       *)
(* shared state besides the goroutine-safe random source, which is         *)
(* modelled as a nondeterministic choice.                                  *)
(***************************************************************************)
EXTENDS Integers, Sequences, FiniteSets, TLC

VARIABLES call

vars == <<call>>

(***************************************************************************)
(* Bounds of the model.                                                    *)
(***************************************************************************)
\* largest attempt budget a caller passes
MaxAttempts == 3
\* largest initial delay (in ns) a caller passes
MaxDelay == 3
\* largest number of declared parameters / results / supplied arguments
MaxArity == 2
\* the draws of the random source the model follows: 0..MaxDraw and the
\* largest one, n - 1
MaxDraw == 2
\* cap on invocations of the operation in one run (only a run whose uint
\* counter wrapped around can reach it)
MaxCalls == MaxAttempts + 2

\* initial delays: time.Duration is signed, so a caller can pass -1
Delays == (-1)..MaxDelay

(***************************************************************************)
(* Go's uint (64 bits), as UintLimbs limbs of 16 bits, most significant    *)
(* first, so that the decrement wraps where Go's does.                     *)
(***************************************************************************)
UintLimbs == 4
UintBase == 65536

\* the uint with the small value n
Uint(n) == [i \in 1..UintLimbs |-> IF i = UintLimbs THEN n ELSE 0]

UintIsZero(u) == \A i \in 1..UintLimbs : u[i] = 0

RECURSIVE UintBorrow(_, _)
UintBorrow(u, i) ==
    IF i = 0 THEN u
    ELSE IF u[i] > 0 THEN [u EXCEPT ![i] = @ - 1]
    ELSE UintBorrow([u EXCEPT ![i] = UintBase - 1], i - 1)

\* a faulty decrement that takes two off the counter
UintDecTwice(u) == UintBorrow(UintBorrow(u, UintLimbs), UintLimbs)

\* attempt-- on a uint: 0 wraps to 2^64 - 1
UintDec(u) == UintBorrow(u, UintLimbs)

(***************************************************************************)
(* Values.  An error value, nil, or a value that is no error, each a       *)
(* record [kind, id]; the error the operation makes in its i-th invocation *)
(* is OpErr(i) (errors.New gives a distinct value on every call).          *)
(***************************************************************************)
NilVal == [kind |-> "nil", id |-> 0]
OpErr(i) == [kind |-> "op", id |-> i]
OtherVal(i) == [kind |-> "other", id |-> i]

\* the errors Do makes itself
ErrAttempt == [kind |-> "retry: attempt should be greater than 0", id |-> 0]
ErrNotFunc == [kind |-> "retry: fn is not a function", id |-> 0]
ErrArgMismatch == [kind |-> "retry: fn argument mismatch", id |-> 0]
ErrNoReturn == [kind |-> "retry: fn return's can not empty, at least an error", id |-> 0]
ErrRightMost == [kind |-> "retry: fn return's right most value must be an error", id |-> 0]

(***************************************************************************)
(* The callable handed to Do, as reflect sees it.                          *)
(*   kind     "invalid": fn is the untyped nil, reflect.ValueOf(fn) is the *)
(*            zero Value; "notfunc": a value of another kind (an int);     *)
(*            "func": a function; "nilfunc": a nil value of function type  *)
(*   numIn    declared parameters, variadic  whether the last is ...T      *)
(*   numOut   declared results                                             *)
(*   lastType declared type of the last result: "error", "iface" (an       *)
(*            interface type that is not error, e.g. interface{}), or      *)
(*            "concrete" (a non-interface type that is no error: bool)     *)
(***************************************************************************)
NoFn == [kind |-> "notfunc", numIn |-> 0, variadic |-> FALSE, numOut |-> 0,
         lastType |-> "error"]

Callables ==
    {[kind |-> "invalid", numIn |-> 0, variadic |-> FALSE, numOut |-> 0,
      lastType |-> "error"], NoFn}
    \cup
    {f \in [kind : {"func", "nilfunc"}, numIn : 0..MaxArity, variadic : BOOLEAN,
            numOut : 0..MaxArity, lastType : {"error", "iface", "concrete"}] :
        /\ f.variadic => f.numIn >= 1
        /\ f.numOut = 0 => f.lastType = "error"}

\* what the last result of the k-th invocation can be, by its declared type
TrailingValues(f, k) ==
    CASE f.lastType = "error" -> {NilVal, OpErr(k)}
      [] f.lastType = "iface" -> {NilVal, OpErr(k), OtherVal(k)}
      [] OTHER -> {OtherVal(k)}

\* the results of the k-th invocation: numOut - 1 leading values, then r
Outputs(f, k, r) ==
    [i \in 1..f.numOut |-> IF i = f.numOut THEN r ELSE [kind |-> "value", id |-> 10 * k + i]]

\* vfn.Call(in) panics on a nil function and on too few arguments
CallPanics(f, nargs) ==
    \/ f.kind = "nilfunc"
    \/ f.variadic /\ nargs < f.numIn - 1

(***************************************************************************)
(* The state of one call of an entry point.                                *)
(*   entry    "DoFuncBackoff", "DoFunc" or "Do"                            *)
(*   pc       "idle", "call" (about to invoke the operation), "backoff"    *)
(*            (retry.go:26), "jitter" (retry.go:96), "returned",           *)
(*            "panicked"                                                   *)
(*   n0, d0   the attempt and sleep arguments as passed                    *)
(*   attempt, sleep, err   the Go variables (err is lastErr in Do)         *)
(*   calls, outcomes       invocations of the operation and what each      *)
(*                         returned last                                   *)
(*   stratArgs, stratRets  arguments and results of the strategy calls     *)
(*   pauses                durations given to time.Sleep                   *)
(*   resNil, results, retErr   the returned values                         *)
(***************************************************************************)
Idle ==
    [entry |-> "none", pc |-> "idle", n0 |-> 0, d0 |-> 0, attempt |-> Uint(0),
     sleep |-> 0, strategy |-> "none", fn |-> NoFn, nargs |-> 0, err |-> NilVal,
     calls |-> 0, outcomes |-> <<>>, stratArgs |-> <<>>, stratRets |-> <<>>,
     pauses |-> <<>>, resNil |-> TRUE, results |-> <<>>, retErr |-> NilVal]

Init == call = [p \in {1} |-> Idle]

\* a faulty layout that keeps the delay in one package-level variable, which
\* every running call then reads and writes
StoreSharedDelay(p, r) ==
    [q \in DOMAIN call |-> IF q = p THEN r ELSE [call[q] EXCEPT !.sleep = r.sleep]]

\* call p takes a step to r: parameters and locals are the call's own (the
\* package has no variable of its own), so no other call's state changes
Store(p, r) == [call EXCEPT ![p] = r]

(***************************************************************************)
(* rand.Int63n(n): panics when n <= 0, else a value in [0, n); of these    *)
(* the model follows the draws up to MaxDraw and the largest.              *)
(***************************************************************************)
Int63nPanics(n) == n <= 0

Int63n(n) == {j \in 0..(n - 1) : j <= MaxDraw \/ j = n - 1}

(***************************************************************************)
(* Backoff strategies.  A strategy maps the delay d to [pause, next]: the  *)
(* duration it sleeps and the delay it returns.                            *)
(***************************************************************************)
\* a faulty closure that doubles the delay it was given, not the jittered one
DoFuncClosureNoJitter(d, j) == [pause |-> d + (j \div 2), next |-> 2 * d]

\* the closure of DoFunc, with j the drawn random number
DoFuncClosure(d, j) ==
    LET s == d + (j \div 2) IN [pause |-> s, next |-> 2 * s]

\* strategies a caller of DoFuncBackoff supplies
CustomStrategies == {"same", "twice", "plusOne"}

CustomStrategy(s, d) ==
    CASE s = "same" -> [pause |-> d, next |-> d]
      [] s = "twice" -> [pause |-> d, next |-> 2 * d]
      [] OTHER -> [pause |-> d, next |-> d + 1]

(***************************************************************************)
(* DoFuncBackoff (retry.go:20-29) and DoFunc (retry.go:33-43)              *)
(***************************************************************************)
\* retry.go:20: the state of DoFuncBackoff(n, d, s, fn) on entry
DoFuncBackoffEnter(n, d, s) ==
    [Idle EXCEPT !.entry = "DoFuncBackoff", !.pc = "call", !.n0 = n, !.d0 = d,
                 !.attempt = Uint(n), !.sleep = d, !.strategy = s]

\* retry.go:33-42: DoFunc(n, d, fn) enters DoFuncBackoff with its closure
DoFuncEnter(n, d) ==
    [Idle EXCEPT !.entry = "DoFunc", !.pc = "call", !.n0 = n, !.d0 = d,
                 !.attempt = Uint(n), !.sleep = d, !.strategy = "jitter"]

CallDoFuncBackoff ==
    \E p \in DOMAIN call :
        /\ call[p].pc = "idle"
        /\ \E n \in 0..MaxAttempts, d \in Delays, s \in CustomStrategies :
              call' = Store(p, DoFuncBackoffEnter(n, d, s))

CallDoFunc ==
    \E p \in DOMAIN call :
        /\ call[p].pc = "idle"
        /\ \E n \in 0..MaxAttempts, d \in Delays :
              call' = Store(p, DoFuncEnter(n, d))

\* a faulty loop exit that ignores a nil result
DoFuncBackoffBreakOnBudgetOnly(attempt, err) == UintIsZero(attempt)

\* a faulty loop exit that ignores the budget
DoFuncBackoffBreakOnNilOnly(attempt, err) == err = NilVal

\* retry.go:23, after attempt--: leave the loop?
DoFuncBackoffBreak(attempt, err) == UintIsZero(attempt) \/ err = NilVal

\* a faulty return that yields the first error seen
DoFuncBackoffReturnFirst(c) ==
    IF c.err = NilVal THEN NilVal ELSE c.outcomes[1]

\* retry.go:28: return err
DoFuncBackoffReturn(c) == c.err

\* retry.go:22-25 and 28: one invocation of fn, which returns r
DoFuncBackoffIteration(c, r) ==
    LET a == UintDec(c.attempt)
        c1 == [c EXCEPT !.err = r, !.calls = @ + 1, !.outcomes = Append(@, r),
                        !.attempt = a]
    IN  IF DoFuncBackoffBreak(a, r)
        THEN [c1 EXCEPT !.pc = "returned", !.retErr = DoFuncBackoffReturn(c1)]
        ELSE [c1 EXCEPT !.pc = "backoff"]

DoFuncBackoffAttempt ==
    \E p \in DOMAIN call :
        /\ call[p].entry \in {"DoFuncBackoff", "DoFunc"}
        /\ call[p].pc = "call"
        /\ call[p].calls < MaxCalls
        /\ \E r \in {NilVal, OpErr(call[p].calls + 1)} :
              call' = Store(p, DoFuncBackoffIteration(call[p], r))

\* a faulty step that calls the strategy and drops its result
DoFuncBackoffAdvanceDropResult(c, st) ==
    [c EXCEPT !.stratArgs = Append(@, c.sleep), !.stratRets = Append(@, st.next),
              !.pauses = Append(@, st.pause), !.pc = "call"]

\* retry.go:26: sleep = backoffStrategy(sleep), the strategy doing step st
DoFuncBackoffAdvance(c, st) ==
    [c EXCEPT !.stratArgs = Append(@, c.sleep), !.stratRets = Append(@, st.next),
              !.pauses = Append(@, st.pause), !.sleep = st.next, !.pc = "call"]

\* retry.go:26 when the strategy panics (rand.Int63n in DoFunc's closure)
DoFuncBackoffPanic(c) ==
    [c EXCEPT !.stratArgs = Append(@, c.sleep), !.pc = "panicked"]

DoFuncBackoffStrategy ==
    \E p \in DOMAIN call :
        LET c == call[p] IN
        /\ c.entry \in {"DoFuncBackoff", "DoFunc"}
        /\ c.pc = "backoff"
        /\ IF c.strategy = "jitter"
           THEN IF Int63nPanics(c.sleep)
                THEN call' = Store(p, DoFuncBackoffPanic(c))
                ELSE \E j \in Int63n(c.sleep) :
                        call' = Store(p, DoFuncBackoffAdvance(c, DoFuncClosure(c.sleep, j)))
           ELSE call' = Store(p, DoFuncBackoffAdvance(c, CustomStrategy(c.strategy, c.sleep)))

(***************************************************************************)
(* Do (retry.go:47-102)                                                    *)
(***************************************************************************)
\* Do returns (nil, e)
DoReturnError(c, e) ==
    [c EXCEPT !.pc = "returned", !.resNil = TRUE, !.results = <<>>, !.retErr = e]

\* retry.go:53-56: vfn.Type() panics on the zero Value
TypePanics(f) == f.kind = "invalid"

\* a faulty validation that counts the arguments of variadic functions too
DoValidateStrictArgs(n, f, nargs) ==
    CASE n = 0 -> ErrAttempt
      [] f.kind \notin {"func", "nilfunc"} -> ErrNotFunc
      [] f.numIn # nargs -> ErrArgMismatch
      [] f.numOut <= 0 -> ErrNoReturn
      [] OTHER -> NilVal

\* retry.go:49-68: the error of the first validation that fails, or nil
DoValidate(n, f, nargs) ==
    CASE n = 0 -> ErrAttempt
      [] f.kind \notin {"func", "nilfunc"} -> ErrNotFunc
      [] ~f.variadic /\ f.numIn # nargs -> ErrArgMismatch
      [] f.numOut <= 0 -> ErrNoReturn
      [] OTHER -> NilVal

\* retry.go:47-77: entry, validation, and the first test of the loop
DoEnter(n, d, f, nargs) ==
    LET c == [Idle EXCEPT !.entry = "Do", !.n0 = n, !.d0 = d, !.attempt = Uint(n),
                          !.sleep = d, !.fn = f, !.nargs = nargs]
        e == DoValidate(n, f, nargs)
    IN  IF n # 0 /\ TypePanics(f) THEN [c EXCEPT !.pc = "panicked"]
        ELSE IF e # NilVal THEN DoReturnError(c, e)
        ELSE IF UintIsZero(c.attempt) THEN DoReturnError(c, c.err)
        ELSE [c EXCEPT !.pc = "call"]

CallDo ==
    \E p \in DOMAIN call :
        /\ call[p].pc = "idle"
        /\ \E n \in 0..MaxAttempts, d \in Delays, f \in Callables, nargs \in 0..MaxArity :
              call' = Store(p, DoEnter(n, d, f, nargs))

\* a faulty check that retries on a last value that is no error
DoBadSentinelNever(v) == FALSE

\* retry.go:85-86: the last value is non-nil and not an error
DoBadSentinel(v) == v.kind # "op" /\ v # NilVal

\* retry.go:91: out[:len(out)-1]
DoResults(out) == SubSeq(out, 1, Len(out) - 1)

\* retry.go:78-94: one invocation of fn, whose last result is r
DoIteration(c, r) ==
    LET k == c.calls + 1
        out == Outputs(c.fn, k, r)
        last == out[Len(out)]
        c1 == [c EXCEPT !.calls = k, !.outcomes = Append(@, last)]
    IN  IF DoBadSentinel(last) THEN DoReturnError(c1, ErrRightMost)
        ELSE IF last = NilVal
        THEN [c1 EXCEPT !.pc = "returned", !.resNil = FALSE,
                        !.results = DoResults(out), !.retErr = NilVal]
        ELSE [c1 EXCEPT !.err = last, !.attempt = UintDec(@), !.pc = "jitter"]

DoAttempt ==
    \E p \in DOMAIN call :
        LET c == call[p] IN
        /\ c.entry = "Do"
        /\ c.pc = "call"
        /\ c.calls < MaxCalls
        /\ IF CallPanics(c.fn, c.nargs)
           THEN call' = Store(p, [c EXCEPT !.pc = "panicked"])
           ELSE \E r \in TrailingValues(c.fn, c.calls + 1) :
                   call' = Store(p, DoIteration(c, r))

\* a faulty loop test that goes round again with the budget spent
DoBackoffNoExit(c, j) ==
    LET s == c.sleep + (j \div 2)
    IN  [c EXCEPT !.pauses = Append(@, s), !.sleep = 2 * s, !.pc = "call"]

\* retry.go:96-98, 77 and 101: jitter with the drawn number j, pause, double
\* the delay, then test the loop again
DoBackoff(c, j) ==
    LET s == c.sleep + (j \div 2)
        c1 == [c EXCEPT !.pauses = Append(@, s), !.sleep = 2 * s]
    IN  IF UintIsZero(c1.attempt) THEN DoReturnError(c1, c1.err)
        ELSE [c1 EXCEPT !.pc = "call"]

DoJitter ==
    \E p \in DOMAIN call :
        LET c == call[p] IN
        /\ c.entry = "Do"
        /\ c.pc = "jitter"
        /\ IF Int63nPanics(c.sleep)
           THEN call' = Store(p, [c EXCEPT !.pc = "panicked"])
           ELSE \E j \in Int63n(c.sleep) :
                   call' = Store(p, DoBackoff(c, j))

Next ==
    \/ CallDoFuncBackoff
    \/ CallDoFunc
    \/ DoFuncBackoffAttempt
    \/ DoFuncBackoffStrategy
    \/ CallDo
    \/ DoAttempt
    \/ DoJitter

Spec == Init /\ [][Next]_vars

(***************************************************************************)
(* Two calls running concurrently (two goroutines), their steps            *)
(* interleaved in any order.  Each goroutine calls one entry point, with   *)
(* inputs from smaller sets.                                               *)
(***************************************************************************)
\* largest attempt budget of a concurrent call
ConcAttempts == 2

ConcDelays == {0, MaxDelay}

\* func() (T, error) and func() (T, interface{})
ConcCallables ==
    {f \in Callables : /\ f.kind = "func" /\ ~f.variadic /\ f.numIn = 0
                       /\ f.numOut = 2 /\ f.lastType \in {"error", "iface"}}

ConcInit == call = [p \in {1, 2} |-> Idle]

ConcCallDoFuncBackoff ==
    \E p \in DOMAIN call :
        /\ call[p].pc = "idle"
        /\ \E n \in 1..ConcAttempts, d \in ConcDelays :
              call' = Store(p, DoFuncBackoffEnter(n, d, "twice"))

ConcCallDoFunc ==
    \E p \in DOMAIN call :
        /\ call[p].pc = "idle"
        /\ \E n \in 1..ConcAttempts, d \in ConcDelays :
              call' = Store(p, DoFuncEnter(n, d))

ConcCallDo ==
    \E p \in DOMAIN call :
        /\ call[p].pc = "idle"
        /\ \E n \in 1..ConcAttempts, d \in ConcDelays, f \in ConcCallables :
              call' = Store(p, DoEnter(n, d, f, 0))

ConcNext ==
    \/ ConcCallDoFuncBackoff
    \/ ConcCallDoFunc
    \/ ConcCallDo
    \/ DoFuncBackoffAttempt
    \/ DoFuncBackoffStrategy
    \/ DoAttempt
    \/ DoJitter

ConcSpec == ConcInit /\ [][ConcNext]_vars

\* A call is sequential code: once the operation, the strategy or the sleep
\* it waits for returns, its next step is taken.
FairSpec ==
    /\ Spec
    /\ WF_vars(DoFuncBackoffAttempt)
    /\ WF_vars(DoFuncBackoffStrategy)
    /\ WF_vars(DoAttempt)
    /\ WF_vars(DoJitter)

(***************************************************************************)
(* Vocabulary of the properties.                                           *)
(***************************************************************************)
\* the calls that run the loop of DoFuncBackoff (DoFunc runs it with its
\* closure as the strategy)
InDoFuncBackoff(c) == c.entry \in {"DoFuncBackoff", "DoFunc"}

\* every invocation so far returned a non-nil error
AllFailed(c) == \A i \in 1..Len(c.outcomes) : c.outcomes[i].kind = "op"

\* Do was handed a function that passes the validations and can be called
\* with the supplied arguments
ValidCallable(c) ==
    /\ c.entry = "Do"
    /\ c.fn.kind = "func"
    /\ ~c.fn.variadic => c.fn.numIn = c.nargs
    /\ c.fn.variadic => c.nargs >= c.fn.numIn - 1
    /\ c.fn.numOut >= 1

\* the leading results of the k-th invocation
Payload(c, k) == [i \in 1..(c.fn.numOut - 1) |-> [kind |-> "value", id |-> 10 * k + i]]

(***************************************************************************)
(* C1: for every attempt budget n >= 1, every initial delay and every      *)
(* strategy, DoFuncBackoff with an operation that fails on every call      *)
(* invokes it exactly n times and returns the error of the n-th call.      *)
(***************************************************************************)
C1_AlwaysFailingRunsNTimes ==
    \A p \in DOMAIN call :
        LET c == call[p] IN
        (InDoFuncBackoff(c) /\ c.n0 >= 1 /\ AllFailed(c)) =>
            /\ c.calls <= c.n0
            /\ (c.pc = "returned") <=> (c.calls = c.n0)
            /\ c.pc = "returned" => c.retErr = OpErr(c.n0)

C1_Witness ==
    \E p \in DOMAIN call :
        LET c == call[p] IN
        /\ c.entry = "DoFuncBackoff" /\ c.pc = "returned" /\ c.n0 = 3
        /\ AllFailed(c) /\ c.calls = 3 /\ c.retErr = OpErr(3)

(***************************************************************************)
(* C2: for every n >= 1 and 1 <= k <= n, DoFuncBackoff with an operation   *)
(* that fails on calls 1..k-1 and returns nil on call k invokes it exactly *)
(* k times and returns nil: the nil result is the last invocation, the     *)
(* run has returned, and no earlier error is returned.                     *)
(***************************************************************************)
C2_SuccessOnKthStops ==
    \A p \in DOMAIN call :
        LET c == call[p] IN
        (InDoFuncBackoff(c) /\ c.n0 >= 1) =>
            \A k \in 1..Len(c.outcomes) :
                c.outcomes[k] = NilVal =>
                    /\ k = c.calls
                    /\ k <= c.n0
                    /\ c.pc = "returned"
                    /\ c.retErr = NilVal

C2_Witness ==
    \E p \in DOMAIN call :
        LET c == call[p] IN
        /\ c.entry = "DoFuncBackoff" /\ c.pc = "returned" /\ c.n0 = 3
        /\ c.calls = 2 /\ c.outcomes = <<OpErr(1), NilVal>> /\ c.retErr = NilVal

(***************************************************************************)
(* C3: in every completed run of DoFuncBackoff the strategy is invoked     *)
(* exactly (invocations of the operation) - 1 times: it is about to be     *)
(* invoked only after a failed attempt that left budget, never after a nil *)
(* result and never after the last permitted attempt.                      *)
(***************************************************************************)
C3_StrategyBetweenAttemptsOnly ==
    \A p \in DOMAIN call :
        LET c == call[p] IN
        InDoFuncBackoff(c) =>
            /\ c.pc = "returned" => Len(c.stratArgs) = c.calls - 1
            /\ c.pc = "backoff" =>
                  /\ Len(c.stratArgs) = c.calls - 1
                  /\ c.outcomes[c.calls] # NilVal
                  /\ ~UintIsZero(c.attempt)
            /\ c.pc = "call" => Len(c.stratArgs) = c.calls

C3_Witness ==
    \E p \in DOMAIN call :
        LET c == call[p] IN
        /\ c.entry = "DoFuncBackoff" /\ c.pc = "returned" /\ c.calls = 3
        /\ Len(c.stratArgs) = 2

(***************************************************************************)
(* C4: for every n >= 1 and positive initial delay, Do with a valid        *)
(* callable whose trailing result is a non-nil error on every call invokes *)
(* it exactly n times and returns (nil, the error of the n-th call).       *)
(***************************************************************************)
C4_DoAlwaysFailingRunsNTimes ==
    \A p \in DOMAIN call :
        LET c == call[p] IN
        (ValidCallable(c) /\ c.n0 >= 1 /\ c.d0 > 0 /\ AllFailed(c)) =>
            /\ c.pc # "panicked"
            /\ c.calls <= c.n0
            /\ c.calls = c.n0 => c.pc \in {"jitter", "returned"}
            /\ c.pc = "returned" =>
                  /\ c.calls = c.n0
                  /\ c.resNil
                  /\ c.retErr = OpErr(c.n0)

C4_Witness ==
    \E p \in DOMAIN call :
        LET c == call[p] IN
        /\ ValidCallable(c) /\ c.pc = "returned" /\ c.n0 = 2 /\ c.d0 = 1
        /\ c.fn.numIn = 2 /\ c.fn.numOut = 2 /\ ~c.fn.variadic
        /\ c.calls = 2 /\ c.resNil /\ c.retErr = OpErr(2)

(***************************************************************************)
(* C5: for every n >= 1, Do with a valid callable whose trailing result is *)
(* nil for the first time on call k <= n invokes it exactly k times (so    *)
(* the run does not die before call k), performs no pause after the        *)
(* successful call, and returns the leading results of call k with a nil   *)
(* error.                                                                  *)
(***************************************************************************)
C5_DoSuccessOnKth ==
    \A p \in DOMAIN call :
        LET c == call[p] IN
        (ValidCallable(c) /\ c.n0 >= 1 /\ c.d0 >= 0 /\ c.fn.lastType = "error") =>
            /\ (AllFailed(c) /\ c.calls < c.n0) => c.pc # "panicked"
            /\ \A k \in 1..Len(c.outcomes) :
                  c.outcomes[k] = NilVal =>
                      /\ k = c.calls
                      /\ c.pc = "returned"
                      /\ Len(c.pauses) = k - 1
                      /\ ~c.resNil
                      /\ c.results = Payload(c, k)
                      /\ c.retErr = NilVal

\* the part of C5 that the code keeps: what Do does once a call returns nil
C5_AfterSuccess ==
    \A p \in DOMAIN call :
        LET c == call[p] IN
        (ValidCallable(c) /\ c.n0 >= 1) =>
            \A k \in 1..Len(c.outcomes) :
                c.outcomes[k] = NilVal =>
                    /\ k = c.calls
                    /\ k <= c.n0
                    /\ c.pc = "returned"
                    /\ Len(c.pauses) = k - 1
                    /\ ~c.resNil
                    /\ c.results = Payload(c, k)
                    /\ c.retErr = NilVal

(***************************************************************************)
(* C6: Do with a callable that declares results but whose last result is   *)
(* never error-shaped (a func returning only a bool) invokes it exactly    *)
(* once whatever the budget and returns that result verbatim with a nil    *)
(* error.  (Stated for positive delays, where no other fault interferes.)  *)
(***************************************************************************)
C6_NoErrorReturnRunsOnce ==
    \A p \in DOMAIN call :
        LET c == call[p] IN
        (ValidCallable(c) /\ c.n0 >= 1 /\ c.d0 > 0 /\ c.fn.lastType = "concrete"
            /\ c.pc = "returned") =>
            /\ c.calls = 1
            /\ ~c.resNil
            /\ c.results = Outputs(c.fn, 1, OtherVal(1))
            /\ c.retErr = NilVal

\* the part of C6 that the code keeps: exactly one invocation
C6_RunsOnce ==
    \A p \in DOMAIN call :
        LET c == call[p] IN
        (ValidCallable(c) /\ c.n0 >= 1 /\ c.fn.lastType = "concrete") =>
            /\ c.calls <= 1
            /\ c.calls = 1 => c.pc = "returned" /\ c.pauses = <<>>

FailsValidation(c) ==
    \/ c.n0 = 0
    \/ c.fn.kind \notin {"func", "nilfunc"}
    \/ ~c.fn.variadic /\ c.fn.numIn # c.nargs
    \/ c.fn.numOut = 0

C8_ValidationFailureReturnsError ==
    \A p \in DOMAIN call :
        LET c == call[p] IN
        (c.entry = "Do" /\ c.d0 > 0 /\ FailsValidation(c)) =>
            /\ c.pc = "returned"
            /\ c.resNil
            /\ c.retErr # NilVal
            /\ c.calls = 0
            /\ c.pauses = <<>>
            /\ c.attempt = Uint(c.n0)
            /\ c.sleep = c.d0

\* the part of C8 that the code keeps: the frame, and the error whenever fn
\* is not the untyped nil
C8_ValidationFrame ==
    \A p \in DOMAIN call :
        LET c == call[p] IN
        (c.entry = "Do" /\ FailsValidation(c)) =>
            /\ c.calls = 0
            /\ c.pauses = <<>>
            /\ c.attempt = Uint(c.n0)
            /\ c.sleep = c.d0
            /\ (c.n0 = 0 \/ c.fn.kind # "invalid") =>
                  c.pc = "returned" /\ c.resNil /\ c.retErr # NilVal

(***************************************************************************)
(* C9: zero is a legal initial delay: DoFunc and Do with initial delay 0,  *)
(* budget n >= 2 and an operation that fails on its first n calls raise no *)
(* runtime fault at the jitter step, and the operation is invoked exactly  *)
(* n times.                                                                *)
(***************************************************************************)
C9_ZeroDelayNoFault ==
    \A p \in DOMAIN call :
        LET c == call[p] IN
        ((c.entry = "DoFunc" \/ ValidCallable(c)) /\ c.d0 = 0 /\ c.n0 >= 2
            /\ AllFailed(c)) =>
            /\ c.pc # "panicked"
            /\ c.pc = "returned" => c.calls = c.n0

(***************************************************************************)
(* C10: DoFuncBackoff with attempt budget 0 executes the operation exactly *)
(* once, whether it returns nil or an error, and then returns that result. *)
(* (Stated for positive delays.)                                           *)
(***************************************************************************)
C10_ZeroBudgetRunsOnce ==
    \A p \in DOMAIN call :
        LET c == call[p] IN
        (c.entry = "DoFuncBackoff" /\ c.n0 = 0 /\ c.d0 > 0) =>
            /\ c.calls <= 1
            /\ c.calls = 1 => (c.pc = "returned" /\ c.retErr = c.outcomes[1])

(***************************************************************************)
(* C11: in Do the delay is consulted and rewritten, and a pause performed, *)
(* only between a failed attempt and a following attempt: after the        *)
(* attempt that exhausts the budget there is no pause and no delay update, *)
(* so a run of n always-failing attempts performs exactly n - 1 pauses.    *)
(***************************************************************************)
C11_DoPausesBetweenAttemptsOnly ==
    \A p \in DOMAIN call :
        LET c == call[p] IN
        (ValidCallable(c) /\ c.n0 >= 1 /\ c.d0 > 0 /\ AllFailed(c)
            /\ c.pc = "returned") =>
            /\ Len(c.pauses) = c.calls - 1
            /\ c.sleep = IF c.calls = 1 THEN c.d0 ELSE 2 * c.pauses[c.calls - 1]

\* what the code does instead: one pause after every failed attempt, the
\* last one included
C11_DoPausesAfterEveryFailure ==
    \A p \in DOMAIN call :
        LET c == call[p] IN
        (ValidCallable(c) /\ c.n0 >= 1 /\ c.d0 > 0 /\ AllFailed(c)
            /\ c.pc = "returned") =>
            Len(c.pauses) = c.calls

(***************************************************************************)
(* C12: DoFunc with an operation that returns nil on its first call        *)
(* invokes it exactly once, performs no pause (the strategy is never       *)
(* reached, so an initial delay of 0 is harmless) and returns nil, for     *)
(* every attempt budget and every initial delay.                           *)
(***************************************************************************)
C12_DoFuncFirstCallSucceeds ==
    \A p \in DOMAIN call :
        LET c == call[p] IN
        (c.entry = "DoFunc" /\ c.calls >= 1 /\ c.outcomes[1] = NilVal) =>
            /\ c.calls = 1
            /\ c.pc = "returned"
            /\ c.retErr = NilVal
            /\ c.pauses = <<>>
            /\ c.stratArgs = <<>>
            /\ c.sleep = c.d0

C12_Witness ==
    \E p \in DOMAIN call :
        LET c == call[p] IN
        /\ c.entry = "DoFunc" /\ c.n0 = 3 /\ c.d0 = 0 /\ c.calls = 1
        /\ c.outcomes = <<NilVal>> /\ c.pc = "returned" /\ c.retErr = NilVal

(***************************************************************************)
(* C13: for every initial budget n >= 1, in both DoFuncBackoff and Do the  *)
(* remaining-attempts counter decreases by exactly one per invocation of   *)
(* the operation, never increases or wraps around, and the number of       *)
(* invocations never exceeds n.                                            *)
(***************************************************************************)
\* the number of invocations so far that returned a non-nil error
RECURSIVE Failures(_)
Failures(outs) ==
    IF outs = <<>> THEN 0
    ELSE (IF outs[1].kind = "op" THEN 1 ELSE 0) + Failures(Tail(outs))

\* C13 as stated (for positive delays): the counter is the budget less the
\* invocations
C13_CounterIsBudgetLessInvocations ==
    \A p \in DOMAIN call :
        LET c == call[p] IN
        (c.entry # "none" /\ c.n0 >= 1 /\ c.d0 > 0) =>
            /\ c.calls <= c.n0
            /\ c.attempt = Uint(c.n0 - c.calls)

\* C13 as amended: in DoFuncBackoff the counter is the budget less the
\* invocations; in Do it is the budget less the invocations that returned
\* an error (the invocation that ends the run with nil, or with a last value
\* that is no error, leaves the counter as it is); in both the counter
\* never wraps and the invocations never exceed the budget
C13_CounterCountsDown ==
    \A p \in DOMAIN call :
        LET c == call[p] IN
        (c.entry # "none" /\ c.n0 >= 1) =>
            /\ c.calls <= c.n0
            /\ InDoFuncBackoff(c) => c.attempt = Uint(c.n0 - c.calls)
            /\ c.entry = "Do" => c.attempt = Uint(c.n0 - Failures(c.outcomes))

C13_Witness ==
    \E p \in DOMAIN call :
        LET c == call[p] IN
        /\ c.entry = "Do" /\ c.n0 = 3 /\ c.calls = 2 /\ c.pc = "returned"
        /\ c.outcomes = <<OpErr(1), NilVal>> /\ c.attempt = Uint(2)

(***************************************************************************)
(* C14: for every budget n >= 1, a positive initial delay, and an          *)
(* operation and strategy whose calls return, every run of DoFuncBackoff,  *)
(* DoFunc and Do eventually returns, and from no reachable state does the  *)
(* retry cycle go on forever: the invocations stay within the budget.      *)
(***************************************************************************)
\* a started call the claim is about
Terminating(c) ==
    /\ c.pc # "idle"
    /\ c.n0 >= 1
    /\ c.d0 > 0
    /\ InDoFuncBackoff(c) \/ ValidCallable(c)

C14_EveryRunReturns ==
    /\ [](Terminating(call[1]) => call[1].calls <= call[1].n0)
    /\ Terminating(call[1]) ~> (call[1].pc = "returned")

C14_Witness ==
    /\ Terminating(call[1])
    /\ call[1].entry = "DoFunc"
    /\ call[1].pc = "returned"
    /\ call[1].n0 = 3
    /\ call[1].calls = 3
    /\ Len(call[1].pauses) = 2

(***************************************************************************)
(* C15: two calls of the entry points running concurrently, interleaved in *)
(* any order, do not interfere: each keeps its own attempt counter and     *)
(* delay, so the invocations, the delays and the result of each call are   *)
(* those of the same call running alone with the same operation outcomes   *)
(* (and the same random draws).                                            *)
(***************************************************************************)
\* the state in which call c started
StartOf(c) ==
    CASE c.entry = "DoFuncBackoff" -> DoFuncBackoffEnter(c.n0, c.d0, c.strategy)
      [] c.entry = "DoFunc" -> DoFuncEnter(c.n0, c.d0)
      [] c.entry = "Do" -> DoEnter(c.n0, c.d0, c.fn, c.nargs)
      [] OTHER -> Idle

\* the draw that made the pause s out of the delay d
DrawOf(d, s) == 2 * (s - d)

\* The call of c run alone from cur, as far as c has come: the operation
\* returning what it returned to c, the random source drawing what it drew
\* for c.
RECURSIVE RunAlone(_, _)
RunAlone(c, cur) ==
    IF cur.pc = "call" /\ cur.entry = "Do"
    THEN IF cur.calls < c.calls
         THEN RunAlone(c, DoIteration(cur, c.outcomes[cur.calls + 1]))
         ELSE IF c.pc = "panicked" /\ CallPanics(cur.fn, cur.nargs)
         THEN [cur EXCEPT !.pc = "panicked"]
         ELSE cur
    ELSE IF cur.pc = "call"
    THEN IF cur.calls < c.calls
         THEN RunAlone(c, DoFuncBackoffIteration(cur, c.outcomes[cur.calls + 1]))
         ELSE cur
    ELSE IF cur.pc = "backoff"
    THEN IF Len(c.stratArgs) <= Len(cur.stratArgs) THEN cur
         ELSE IF cur.strategy # "jitter"
         THEN RunAlone(c, DoFuncBackoffAdvance(cur, CustomStrategy(cur.strategy, cur.sleep)))
         ELSE IF Int63nPanics(cur.sleep) THEN DoFuncBackoffPanic(cur)
         ELSE IF Len(c.pauses) <= Len(cur.pauses) THEN cur
         ELSE RunAlone(c, DoFuncBackoffAdvance(cur,
                 DoFuncClosure(cur.sleep, DrawOf(cur.sleep, c.pauses[Len(cur.pauses) + 1]))))
    ELSE IF cur.pc = "jitter"
    THEN IF Len(c.pauses) > Len(cur.pauses)
         THEN RunAlone(c, DoBackoff(cur, DrawOf(cur.sleep, c.pauses[Len(cur.pauses) + 1])))
         ELSE IF c.pc = "panicked" /\ Int63nPanics(cur.sleep)
         THEN [cur EXCEPT !.pc = "panicked"]
         ELSE cur
    ELSE cur

IsFunction(f) == f.kind \in {"func", "nilfunc"}

C16_FirstFailingValidationReported ==
    /\ Cardinality({ErrAttempt, ErrNotFunc, ErrArgMismatch, ErrNoReturn}) = 4
    /\ \A p \in DOMAIN call :
          LET c == call[p]
              reports(e) == c.pc = "returned" /\ c.resNil /\ c.retErr = e
          IN  (c.entry = "Do" /\ c.d0 > 0) =>
                 /\ c.n0 = 0 => reports(ErrAttempt)
                 /\ (c.n0 >= 1 /\ ~IsFunction(c.fn)) => reports(ErrNotFunc)
                 /\ (c.n0 >= 1 /\ IsFunction(c.fn) /\ ~c.fn.variadic
                        /\ c.fn.numIn # c.nargs) => reports(ErrArgMismatch)
                 /\ (c.n0 >= 1 /\ IsFunction(c.fn)
                        /\ (c.fn.variadic \/ c.fn.numIn = c.nargs)
                        /\ c.fn.numOut = 0) => reports(ErrNoReturn)

\* the part of C16 that the code keeps: the order, whenever fn is not the
\* untyped nil
C16_OrderForTypedValues ==
    \A p \in DOMAIN call :
        LET c == call[p]
            reports(e) == c.pc = "returned" /\ c.resNil /\ c.retErr = e
        IN  c.entry = "Do" =>
               /\ c.n0 = 0 => reports(ErrAttempt)
               /\ (c.n0 >= 1 /\ c.fn.kind = "notfunc") => reports(ErrNotFunc)
               /\ (c.n0 >= 1 /\ IsFunction(c.fn) /\ ~c.fn.variadic
                      /\ c.fn.numIn # c.nargs) => reports(ErrArgMismatch)
               /\ (c.n0 >= 1 /\ IsFunction(c.fn)
                      /\ (c.fn.variadic \/ c.fn.numIn = c.nargs)
                      /\ c.fn.numOut = 0) => reports(ErrNoReturn)

(***************************************************************************)
(* C17: in DoFuncBackoff the delay is threaded through the strategy: its   *)
(* first invocation receives the caller's initial delay, its i-th (i >= 2) *)
(* exactly what its (i-1)-th returned, and nothing else changes the delay. *)
(***************************************************************************)
C17_DelayThreadedThroughStrategy ==
    \A p \in DOMAIN call :
        LET c == call[p] IN
        InDoFuncBackoff(c) =>
            /\ \A i \in 1..Len(c.stratArgs) :
                  c.stratArgs[i] = IF i = 1 THEN c.d0 ELSE c.stratRets[i - 1]
            /\ c.sleep = IF c.stratRets = <<>> THEN c.d0
                         ELSE c.stratRets[Len(c.stratRets)]

C17_Witness ==
    \E p \in DOMAIN call :
        LET c == call[p] IN
        /\ c.entry = "DoFuncBackoff" /\ c.strategy = "plusOne" /\ c.d0 = 1
        /\ c.stratArgs = <<1, 2>> /\ c.stratRets = <<2, 3>> /\ c.sleep = 3

(***************************************************************************)
(* C18: with a positive current delay d, the jittered-exponential step (in *)
(* DoFunc's strategy and in Do's loop) pauses for p with                   *)
(* d <= p < d + d/2 and sets the next delay to exactly 2*p; so successive  *)
(* pauses satisfy 2*p_i <= p_(i+1) < 3*p_i and strictly increase.          *)
(* (d/2 is the exact half: p < d + d/2 is 2*p < 3*d.)                      *)
(***************************************************************************)
C18_JitteredExponentialStep ==
    \A p \in DOMAIN call :
        LET c == call[p] IN
        c.entry \in {"DoFunc", "Do"} =>
            /\ \A i \in 1..Len(c.pauses) :
                  LET d == IF i = 1 THEN c.d0 ELSE 2 * c.pauses[i - 1] IN
                  /\ d > 0
                  /\ d <= c.pauses[i]
                  /\ 2 * c.pauses[i] < 3 * d
            /\ \A i \in 2..Len(c.pauses) :
                  /\ 2 * c.pauses[i - 1] <= c.pauses[i]
                  /\ c.pauses[i] < 3 * c.pauses[i - 1]
                  /\ c.pauses[i - 1] < c.pauses[i]
            /\ c.pauses # <<>> => c.sleep = 2 * c.pauses[Len(c.pauses)]
            /\ c.entry = "DoFunc" =>
                  \A i \in 1..Len(c.stratRets) : c.stratRets[i] = 2 * c.pauses[i]

\* a run of DoFunc in which the first pause was jittered
C18_Witness ==
    \E p \in DOMAIN call :
        LET c == call[p] IN
        /\ c.entry = "DoFunc" /\ c.d0 = 3 /\ Len(c.pauses) = 2
        /\ c.pauses[1] = 4 /\ c.pauses[2] > 8

(***************************************************************************)
(* C19: for a variadic callable Do never returns the argument-mismatch     *)
(* error: any argument count at or above the fixed parameters passes       *)
(* validation and the callable is invoked, and a count below the fixed     *)
(* parameters is not rejected by the argument-count check either.          *)
(***************************************************************************)
C19_VariadicSkipsArgumentCheck ==
    \A p \in DOMAIN call :
        LET c == call[p] IN
        (c.entry = "Do" /\ IsFunction(c.fn) /\ c.fn.variadic) =>
            /\ c.retErr # ErrArgMismatch
            /\ (c.n0 >= 1 /\ c.fn.numOut >= 1) =>
                  \* validation passed: the loop was entered
                  /\ c.calls = 0 => c.pc \in {"call", "panicked"}
                  /\ c.pc = "panicked" /\ c.calls = 0 =>
                        c.fn.kind = "nilfunc" \/ c.nargs < c.fn.numIn - 1
                  /\ (c.fn.kind = "func" /\ c.nargs >= c.fn.numIn - 1) =>
                        c.pc # "panicked" \/ c.calls >= 1

\* a variadic function with one fixed parameter, called with two arguments
C19_Witness ==
    \E p \in DOMAIN call :
        LET c == call[p] IN
        /\ c.entry = "Do" /\ c.fn.kind = "func" /\ c.fn.variadic
        /\ c.fn.numIn = 2 /\ c.nargs = 2 /\ c.calls = 1 /\ c.pc = "returned"
        /\ c.retErr = NilVal

=============================================================================
